---- MODULE Spec2Model ----
(***************************************************************************)
(* The conversational memory subsystem of ai_agent: ShortTermMemory (a     *)
(* bounded deque), LongTermMemory (a dict keyed by Memory.id, with Fernet   *)
(* encryption of sensitive content) and MemoryManager, which writes every  *)
(* interaction to both.                                                     *)
(*                                                                         *)
(* Python passes Memory objects by reference, so the model keeps a heap of *)
(* Memory objects and the two tiers hold references into it: an in-place   *)
(* assignment to memory.content is seen through every reference.           *)
(***************************************************************************)
EXTENDS Integers, Sequences, FiniteSets

\* ------------------------------------------------------------------ bounds
MaxObjs == 2      \* Memory objects the caller constructs
MaxCap == 2       \* largest explicit ShortTermMemory(max_size=...)
MaxAdds == 3      \* appends to the deque since construction
MaxLayers == 2    \* nested Fernet tokens in one content string
MaxTime == 1      \* days on the clock
MaxDays == 1      \* largest retention_days argument
MaxLimit == 2     \* largest limit argument of get_recent and search
NumNonces == 1    \* distinct IVs Fernet may draw
MaxTokens == 2    \* largest prompt_tokens and completion_tokens argument
MaxUsages == 2    \* record_usage calls
MaxErrors == 7    \* handle_error calls

DefaultMaxSize == 100
FailureThreshold == 5

\* ------------------------------------------------------------ input domains
Ids == {"m1", "m2"}
Sessions == {"s1", "s2"}
\* Text on which str.encode() raises UnicodeEncodeError (a lone surrogate).
Unencodable == "lone-surrogate"
Texts == {"hello", "secret", Unencodable}
Times == 0..MaxTime
Nonces == 1..NumNonces

\* A Python str held in Memory.content: a text wrapped in zero or more Fernet
\* tokens; iv lists the IV of each layer, innermost first.
Str(text) == [text |-> text, iv |-> <<>>]
NoStr == [text |-> "<none>", iv |-> <<>>]

VARIABLES
    heap,        \* Memory objects constructed so far, by reference 1..Len(heap)
    short_term,  \* ShortTermMemory.memories: the deque, oldest first
    max_size,    \* ShortTermMemory.max_size
    long_term,   \* LongTermMemory.memories: the dict, in insertion order
    cipher,      \* LongTermMemory.cipher is set (a key was given)
    added,       \* history: every reference appended since construction
    ret,         \* the last call: its arguments and what it returned or raised
    scan,        \* a search in flight on another thread: its loop over the dict
    writing,     \* a store_interaction in flight on another thread, between
                 \* its two writes: the reference it is storing, 0 if none
    tracker,     \* TokenTracker: usage_records, total_tokens, total_cost
    recorded,    \* history: the arguments of every record_usage call
    handler,     \* ErrorHandler: failure_count, failure_threshold, state
    reports      \* history: the dict every handle_error call returned

\* The state outside the memory subsystem.
outside == <<tracker, recorded, handler, reports>>

vars == <<heap, short_term, max_size, long_term, cipher, added, ret, scan,
          writing, outside>>

\* The state of the memory subsystem.
memory == <<heap, short_term, max_size, long_term, cipher, added, ret, scan, writing>>

Refs == 1..Len(heap)

\* ------------------------------------------------------------------- Memory
Memory(id, session_id, content, embedding, timestamp, is_sensitive) ==
    [id |-> id, session_id |-> session_id, content |-> content,
     embedding |-> embedding, timestamp |-> timestamp, is_sensitive |-> is_sensitive]

\* ------------------------------------------------------------------- Fernet
\* str.encode(): raises on a text that is not encodable.  A token is ASCII.
Encodable(s) == s.iv # <<>> \/ s.text # Unencodable

\* Fernet.encrypt: a fresh token around the plaintext, under the IV drawn.
Encrypt(s, nonce) == [s EXCEPT !.iv = Append(@, nonce)]

\* Fernet.decrypt raises InvalidToken on anything that is not a token.
IsToken(s) == s.iv # <<>>
Decrypt(s) == [s EXCEPT !.iv = SubSeq(@, 1, Len(@) - 1)]

\* --------------------------------------------------------------------- dict
\* A Python dict as the sequence of its items in insertion order.
DictKeys(d) == {d[i].k : i \in 1..Len(d)}
DictIndex(d, key) == CHOOSE i \in 1..Len(d) : d[i].k = key

\* dict.get(key): the value, or None (0 is no reference).
DictGet(d, key) == IF key \in DictKeys(d) THEN d[DictIndex(d, key)].v ELSE 0

\* d[key] = value: an existing key keeps its place in the order.
DictSet(d, key, value) ==
    IF key \in DictKeys(d)
    THEN [d EXCEPT ![DictIndex(d, key)].v = value]
    ELSE Append(d, [k |-> key, v |-> value])

\* del d[key] for every key of gone.
RECURSIVE DictDel(_, _)
DictDel(d, gone) ==
    IF d = <<>> THEN <<>>
    ELSE IF Head(d).k \in gone THEN DictDel(Tail(d), gone)
    ELSE <<Head(d)>> \o DictDel(Tail(d), gone)

\* -------------------------------------------------------------------- deque
\* A full buffer that refuses the new item instead of dropping the oldest.
DequeAppendKeepOldest(q, x, maxlen) ==
    IF Len(q) >= maxlen THEN q ELSE Append(q, x)

\* A deque without maxlen.
DequeAppendUnbounded(q, x, maxlen) == Append(q, x)

\* deque(maxlen=n).append(x): a full deque drops its oldest item first.
DequeAppend(q, x, maxlen) ==
    IF maxlen = 0 THEN <<>>
    ELSE IF Len(q) >= maxlen THEN Append(Tail(q), x)
    ELSE Append(q, x)

\* ---------------------------------------------------------- ShortTermMemory
\* list(self.memories)[-limit:]; Python reads [-0:] as the whole list, and a
\* negative limit as a start index counted from the front.
GetRecent(q, limit) ==
    IF limit = 0 \/ limit >= Len(q) THEN q
    ELSE IF limit < 0 THEN SubSeq(q, 1 - limit, Len(q))
    ELSE SubSeq(q, Len(q) - limit + 1, Len(q))

\* The session filter returning newest first.
RECURSIVE GetBySessionNewestFirst(_, _, _)
GetBySessionNewestFirst(h, q, session_id) ==
    IF q = <<>> THEN <<>>
    ELSE IF h[Head(q)].session_id = session_id
         THEN GetBySessionNewestFirst(h, Tail(q), session_id) \o <<Head(q)>>
         ELSE GetBySessionNewestFirst(h, Tail(q), session_id)

\* The filter comparing the record's id instead of its session_id.
RECURSIVE GetBySessionOnId(_, _, _)
GetBySessionOnId(h, q, session_id) ==
    IF q = <<>> THEN <<>>
    ELSE IF h[Head(q)].id = session_id
         THEN <<Head(q)>> \o GetBySessionOnId(h, Tail(q), session_id)
         ELSE GetBySessionOnId(h, Tail(q), session_id)

\* [m for m in self.memories if m.session_id == session_id]
RECURSIVE GetBySession(_, _, _)
GetBySession(h, q, session_id) ==
    IF q = <<>> THEN <<>>
    ELSE IF h[Head(q)].session_id = session_id
         THEN <<Head(q)>> \o GetBySession(h, Tail(q), session_id)
         ELSE GetBySession(h, Tail(q), session_id)

\* ----------------------------------------------------------- LongTermMemory
\* store without the encryption branch: the content is kept as given.
StoreOutcomePlain(h, d, key_set, r, nonce) ==
    [status |-> "ok", heap |-> h, memories |-> DictSet(d, h[r].id, r)]

\* store falling back to the plain content when the encryption raises.
StoreOutcomeFallbackPlain(h, d, key_set, r, nonce) ==
    IF h[r].is_sensitive /\ key_set /\ Encodable(h[r].content)
    THEN [status |-> "ok",
          heap |-> [h EXCEPT ![r].content = Encrypt(@, nonce)],
          memories |-> DictSet(d, h[r].id, r)]
    ELSE [status |-> "ok", heap |-> h, memories |-> DictSet(d, h[r].id, r)]

\* store filing the record under its session_id.
StoreOutcomeKeyedBySession(h, d, key_set, r, nonce) ==
    IF h[r].is_sensitive /\ key_set
    THEN IF ~Encodable(h[r].content)
         THEN [status |-> "UnicodeEncodeError", heap |-> h, memories |-> d]
         ELSE [status |-> "ok",
               heap |-> [h EXCEPT ![r].content = Encrypt(@, nonce)],
               memories |-> DictSet(d, h[r].session_id, r)]
    ELSE [status |-> "ok", heap |-> h, memories |-> DictSet(d, h[r].session_id, r)]

\* LongTermMemory.store on heap h and dict d: the heap and dict it leaves and
\* the exception it raises, if any.  The token is assigned to the caller's
\* object, and the dict keeps a reference to that object.
StoreOutcome(h, d, key_set, r, nonce) ==
    IF h[r].is_sensitive /\ key_set
    THEN IF ~Encodable(h[r].content)
         THEN [status |-> "UnicodeEncodeError", heap |-> h, memories |-> d]
         ELSE [status |-> "ok",
               heap |-> [h EXCEPT ![r].content = Encrypt(@, nonce)],
               memories |-> DictSet(d, h[r].id, r)]
    ELSE [status |-> "ok", heap |-> h, memories |-> DictSet(d, h[r].id, r)]

\* retrieve decrypting whenever a key is set, sensitive or not.
RetrieveOutcomeAnyRecord(h, d, key_set, memory_id) ==
    LET r == DictGet(d, memory_id) IN
    IF r # 0 /\ key_set
    THEN IF ~IsToken(h[r].content)
         THEN [status |-> "InvalidToken", ref |-> 0, heap |-> h]
         ELSE [status |-> "ok", ref |-> r,
               heap |-> [h EXCEPT ![r].content = Decrypt(@)]]
    ELSE [status |-> "ok", ref |-> r, heap |-> h]

\* retrieve decrypting every sensitive record without testing self.cipher:
\* with no key set, the call on None raises.
RetrieveOutcomeKeyUntested(h, d, key_set, memory_id) ==
    LET r == DictGet(d, memory_id) IN
    IF r # 0 /\ h[r].is_sensitive
    THEN IF ~key_set
         THEN [status |-> "AttributeError", ref |-> 0, heap |-> h]
         ELSE IF ~IsToken(h[r].content)
         THEN [status |-> "InvalidToken", ref |-> 0, heap |-> h]
         ELSE [status |-> "ok", ref |-> r,
               heap |-> [h EXCEPT ![r].content = Decrypt(@)]]
    ELSE [status |-> "ok", ref |-> r, heap |-> h]

\* LongTermMemory.retrieve: the reference it returns (0 for None), the heap it
\* leaves and the exception it raises, if any.  The decrypted text is assigned
\* to the stored object itself, which is the object returned.
RetrieveOutcome(h, d, key_set, memory_id) ==
    LET r == DictGet(d, memory_id) IN
    IF r # 0 /\ h[r].is_sensitive /\ key_set
    THEN IF ~Encodable(h[r].content)
         THEN [status |-> "UnicodeEncodeError", ref |-> 0, heap |-> h]
         ELSE IF ~IsToken(h[r].content)
         THEN [status |-> "InvalidToken", ref |-> 0, heap |-> h]
         ELSE [status |-> "ok", ref |-> r,
               heap |-> [h EXCEPT ![r].content = Decrypt(@)]]
    ELSE [status |-> "ok", ref |-> r, heap |-> h]

\* The content a caller reads off what retrieve returns (NoStr for None or an
\* exception).
ContentOf(out) == IF out.ref = 0 THEN NoStr ELSE out.heap[out.ref].content

\* The cutoff comparison made inclusive.
ToRemoveInclusive(h, d, cutoff) ==
    {d[i].k : i \in {j \in 1..Len(d) : h[d[j].v].timestamp <= cutoff}}

\* cleanup_old: the keys whose record is older than the cutoff.
ToRemove(h, d, cutoff) ==
    {d[i].k : i \in {j \in 1..Len(d) : h[d[j].v].timestamp < cutoff}}

\* ------------------------------------------------------------------- search
\* Embedding vectors have integer components here, on which the float
\* arithmetic of _cosine_similarity orders exactly as the reals do.
RECURSIVE DotProduct(_, _)
DotProduct(a, b) ==
    IF a = <<>> THEN 0 ELSE Head(a) * Head(b) + DotProduct(Tail(a), Tail(b))

\* The similarity 0.0.
ZeroSimilarity == [num |-> 0, den |-> 1]

\* _cosine_similarity without the test for a zero magnitude: the division is
\* then by zero (den = 0).
CosineSimilarityUnguarded(a, b) ==
    IF Len(a) # Len(b) THEN ZeroSimilarity
    ELSE LET dot == DotProduct(a, b) IN
         [num |-> IF dot < 0 THEN -(dot * dot) ELSE dot * dot,
          den |-> DotProduct(a, a) * DotProduct(b, b)]

\* _cosine_similarity(a, b) = dot / (|a| |b|), kept as the exact quotient
\* num/den = sign(cos) cos^2, which orders as the cosine does (den > 0).
CosineSimilarity(a, b) ==
    IF Len(a) # Len(b) THEN ZeroSimilarity
    ELSE LET dot == DotProduct(a, b)
             sq_a == DotProduct(a, a)
             sq_b == DotProduct(b, b)
         IN IF sq_a = 0 \/ sq_b = 0 THEN ZeroSimilarity
            ELSE [num |-> IF dot < 0 THEN -(dot * dot) ELSE dot * dot,
                  den |-> sq_a * sq_b]

\* x >= y and x = y on similarities.
SimGeq(x, y) == x.num * y.den >= y.num * x.den
SimEq(x, y) == x.num * y.den = y.num * x.den

\* results.append((similarity, memory)) over self.memories.values(), for the
\* records whose embedding is not empty.
RECURSIVE Scored(_, _, _)
Scored(h, d, query) ==
    IF d = <<>> THEN <<>>
    ELSE IF h[Head(d).v].embedding # <<>>
         THEN <<[sim |-> CosineSimilarity(query, h[Head(d).v].embedding),
                 ref |-> Head(d).v]>> \o Scored(h, Tail(d), query)
         ELSE Scored(h, Tail(d), query)

\* One item put in its place in a list sorted by descending similarity, after
\* the items of equal similarity already there.
RECURSIVE InsertDescending(_, _)
InsertDescending(sorted, x) ==
    IF sorted = <<>> THEN <<x>>
    ELSE IF SimGeq(Head(sorted).sim, x.sim)
         THEN <<Head(sorted)>> \o InsertDescending(Tail(sorted), x)
         ELSE <<x>> \o sorted

\* The sort made ascending (reverse=True forgotten).
RECURSIVE SortAscending(_)
SortAscending(results) ==
    IF results = <<>> THEN <<>>
    ELSE LET rest == SortAscending(SubSeq(results, 1, Len(results) - 1))
             x == results[Len(results)]
             RECURSIVE Ins(_)
             Ins(sorted) ==
                 IF sorted = <<>> THEN <<x>>
                 ELSE IF SimGeq(x.sim, Head(sorted).sim)
                      THEN <<Head(sorted)>> \o Ins(Tail(sorted))
                      ELSE <<x>> \o sorted
         IN Ins(rest)

\* A descending sort that puts a new item before the items equal to it.
RECURSIVE SortDescendingTiesReversed(_)
SortDescendingTiesReversed(results) ==
    IF results = <<>> THEN <<>>
    ELSE LET rest == SortDescendingTiesReversed(SubSeq(results, 1, Len(results) - 1))
             x == results[Len(results)]
             RECURSIVE Ins(_)
             Ins(sorted) ==
                 IF sorted = <<>> THEN <<x>>
                 ELSE IF SimGeq(x.sim, Head(sorted).sim)
                      THEN <<x>> \o sorted
                      ELSE <<Head(sorted)>> \o Ins(Tail(sorted))
         IN Ins(rest)

\* results.sort(reverse=True, key=lambda x: x[0]): a stable sort, so items of
\* equal similarity keep the order they were appended in.
RECURSIVE SortDescending(_)
SortDescending(results) ==
    IF results = <<>> THEN <<>>
    ELSE InsertDescending(SortDescending(SubSeq(results, 1, Len(results) - 1)),
                          results[Len(results)])

\* Python's q[:limit]: the first limit items, or all but the last -limit.
SliceTo(q, limit) ==
    IF limit >= 0
    THEN IF limit >= Len(q) THEN q ELSE SubSeq(q, 1, limit)
    ELSE IF -limit >= Len(q) THEN <<>> ELSE SubSeq(q, 1, Len(q) + limit)

\* A division by zero among the similarities computed: Python raises
\* ZeroDivisionError out of _cosine_similarity and so out of search.
DividesByZero(h, d, query) ==
    \E i \in 1..Len(d) :
        /\ h[d[i].v].embedding # <<>>
        /\ CosineSimilarity(query, h[d[i].v].embedding).den = 0

\* LongTermMemory.search: the references returned, most similar first.
Search(h, d, query, limit) ==
    LET top == SliceTo(SortDescending(Scored(h, d, query)), limit) IN
    [i \in 1..Len(top) |-> top[i].ref]

\* ------------------------------------------------------------- call records
\* What the caller saw of the last call.  ref and id are the arguments (for
\* retrieve, ref is the reference returned); val is the content passed in
\* (store) or read off the result (retrieve); n counts what cleanup_old
\* removed; orig and nth follow a run store, retrieve, retrieve, ... on one id:
\* the content the store was given and the number of retrieves since.  list is
\* the list of references a read returned, session_id the session asked for,
\* limit and query the arguments of get_recent and search.
Call(op, status, ref, id, val) ==
    [op |-> op, status |-> status, ref |-> ref, id |-> id, val |-> val,
     n |-> 0, orig |-> NoStr, nth |-> 0, now |-> 0, days |-> 0,
     list |-> <<>>, session_id |-> "", limit |-> 0, query |-> <<>>]

\* --------------------------------------------------------- a search in flight
\* search run by one thread while others call the store: pc is "idle" (no
\* call yet), "iter" (inside the for loop over self.memories.values()) or
\* "done" (returned or raised); pos is the iterator's place in the dict, used
\* the dict's size when the iterator was made, keys the dict's keys at the
\* iterator's last step, results the list built so far; status and list are
\* what the call raised or returned.  seen and during are history: the dicts
\* that existed during the call, and the calls that wrote the dict meanwhile.
NoScan ==
    [pc |-> "idle", query |-> <<>>, limit |-> 0, pos |-> 0, used |-> 0,
     keys |-> <<>>, results |-> <<>>, status |-> "", list |-> <<>>,
     seen |-> {}, during |-> {}]

KeySeq(d) == [i \in 1..Len(d) |-> d[i].k]

\* A call that leaves dict d while the loop is running.
Overlap(s, op, d) ==
    IF s.pc = "iter"
    THEN [s EXCEPT !.seen = @ \cup {d}, !.during = @ \cup {op}]
    ELSE s

\* The dict iterator's outcomes at next(): "changed size" when the size is
\* not the one the iterator was made at; after a change of the keys that
\* restores the size, either "keys changed" or going on; otherwise going on.
IterOutcomes(s, d) ==
    IF Len(d) # s.used THEN {"RuntimeError"}
    ELSE IF KeySeq(d) # s.keys THEN {"RuntimeError", "next"}
    ELSE {"next"}

\* The for loop's body on the record at the iterator's place.
LoopBody(h, s, d) ==
    LET r == d[s.pos].v IN
    IF h[r].embedding # <<>>
    THEN Append(s.results, [sim |-> CosineSimilarity(s.query, h[r].embedding),
                            ref |-> r])
    ELSE s.results

\* What the call returns after the loop.
TopOf(results, limit) ==
    LET top == SliceTo(SortDescending(results), limit) IN
    [i \in 1..Len(top) |-> top[i].ref]

\* ---------------------------------------------------------------- the state
Init ==
    /\ heap = <<>>
    /\ short_term = <<>>
    /\ max_size \in (1..MaxCap) \cup {DefaultMaxSize}
    /\ long_term = <<>>
    /\ cipher \in BOOLEAN
    /\ added = <<>>
    /\ ret = Call("init", "ok", 0, "", NoStr)
    /\ scan = NoScan
    /\ writing = 0
    /\ tracker = [usage_records |-> <<>>, total_tokens |-> 0, total_cost |-> 0]
    /\ recorded = <<>>
    /\ handler = [failure_count |-> 0, failure_threshold |-> FailureThreshold,
                  state |-> "closed"]
    /\ reports = <<>>

\* The caller constructs a Memory.
NewMemory(D) ==
    /\ Len(heap) < MaxObjs
    /\ \E id \in D.ids, session_id \in D.sessions, text \in D.texts,
          embedding \in D.embeddings, timestamp \in D.times, is_sensitive \in D.flags :
          heap' = Append(heap, Memory(id, session_id, Str(text), embedding,
                                      timestamp, is_sensitive))
    /\ UNCHANGED <<short_term, max_size, long_term, cipher, added, ret, scan, writing, outside>>

\* ShortTermMemory.add
add(r) ==
    /\ Len(added) < MaxAdds
    /\ short_term' = DequeAppend(short_term, r, max_size)
    /\ added' = Append(added, r)
    /\ ret' = Call("add", "ok", r, "", NoStr)
    /\ UNCHANGED <<heap, max_size, long_term, cipher, scan, writing, outside>>

\* ShortTermMemory.clear
clear ==
    /\ short_term' = <<>>
    /\ added' = <<>>
    /\ ret' = Call("clear", "ok", 0, "", NoStr)
    /\ UNCHANGED <<heap, max_size, long_term, cipher, scan, writing, outside>>

\* LongTermMemory.store
store(r) ==
    /\ heap[r].is_sensitive /\ cipher => Len(heap[r].content.iv) < MaxLayers
    /\ \E nonce \in Nonces :
         LET out == StoreOutcome(heap, long_term, cipher, r, nonce) IN
         /\ heap' = out.heap
         /\ long_term' = out.memories
         /\ ret' = Call("store", out.status, r, heap[r].id, heap[r].content)
         /\ scan' = Overlap(scan, "store", out.memories)
    /\ UNCHANGED <<short_term, max_size, cipher, added, writing, outside>>

\* LongTermMemory.retrieve
retrieve(memory_id) ==
    LET out == RetrieveOutcome(heap, long_term, cipher, memory_id)
        chained == ret.id = memory_id /\ ret.status = "ok"
                   /\ ret.op \in {"store", "retrieve"}
    IN
    /\ heap' = out.heap
    /\ ret' = [Call("retrieve", out.status, out.ref, memory_id, ContentOf(out))
                EXCEPT !.orig = IF ~chained THEN NoStr
                                ELSE IF ret.op = "store" THEN ret.val ELSE ret.orig,
                       !.nth = IF ~chained THEN 0
                               ELSE IF ret.op = "store" THEN 1
                               ELSE IF ret.nth = 0 THEN 0 ELSE 2]
    /\ UNCHANGED <<short_term, max_size, long_term, cipher, added, scan, writing, outside>>

\* LongTermMemory.cleanup_old, with datetime.utcnow() reading now.
cleanup_old(retention_days, now) ==
    LET cutoff == now - retention_days
        to_remove == ToRemove(heap, long_term, cutoff)
    IN
    /\ long_term' = DictDel(long_term, to_remove)
    /\ ret' = [Call("cleanup_old", "ok", 0, "", NoStr)
                EXCEPT !.n = Cardinality(to_remove), !.now = now,
                       !.days = retention_days]
    /\ scan' = Overlap(scan, "cleanup_old", DictDel(long_term, to_remove))
    /\ UNCHANGED <<heap, short_term, max_size, cipher, added, writing, outside>>

\* store_interaction writing the long-term store first: a failed store leaves
\* the deque as it was.
store_interaction_store_first(r) ==
    /\ Len(added) < MaxAdds
    /\ heap[r].is_sensitive /\ cipher => Len(heap[r].content.iv) < MaxLayers
    /\ \E nonce \in Nonces :
         LET out == StoreOutcome(heap, long_term, cipher, r, nonce) IN
         /\ heap' = out.heap
         /\ long_term' = out.memories
         /\ short_term' = IF out.status = "ok"
                          THEN DequeAppend(short_term, r, max_size) ELSE short_term
         /\ added' = IF out.status = "ok" THEN Append(added, r) ELSE added
         /\ ret' = Call("store_interaction", out.status, r, heap[r].id, heap[r].content)
    /\ UNCHANGED <<max_size, cipher, scan, writing, outside>>

\* store_interaction deleting from the long-term store the record the deque
\* drops.
store_interaction_evicting_both(r) ==
    /\ Len(added) < MaxAdds
    /\ heap[r].is_sensitive /\ cipher => Len(heap[r].content.iv) < MaxLayers
    /\ short_term' = DequeAppend(short_term, r, max_size)
    /\ added' = Append(added, r)
    /\ \E nonce \in Nonces :
         LET out == StoreOutcome(heap, long_term, cipher, r, nonce)
             dropped == IF Len(short_term) >= max_size
                        THEN {heap[Head(short_term)].id} \ {heap[r].id} ELSE {}
         IN
         /\ heap' = out.heap
         /\ long_term' = DictDel(out.memories, dropped)
         /\ ret' = Call("store_interaction", out.status, r, heap[r].id, heap[r].content)
    /\ UNCHANGED <<max_size, cipher, scan, writing, outside>>

\* MemoryManager.store_interaction: short_term.add, then long_term.store,
\* whose exception passes to the caller with the deque already appended to.
store_interaction(r) ==
    /\ Len(added) < MaxAdds
    /\ heap[r].is_sensitive /\ cipher => Len(heap[r].content.iv) < MaxLayers
    /\ short_term' = DequeAppend(short_term, r, max_size)
    /\ added' = Append(added, r)
    /\ \E nonce \in Nonces :
         LET out == StoreOutcome(heap, long_term, cipher, r, nonce) IN
         /\ heap' = out.heap
         /\ long_term' = out.memories
         /\ ret' = Call("store_interaction", out.status, r, heap[r].id, heap[r].content)
    /\ UNCHANGED <<max_size, cipher, scan, writing, outside>>

\* LongTermMemory.search
search(query_embedding, limit) ==
    /\ ret' = IF DividesByZero(heap, long_term, query_embedding)
              THEN [Call("search", "ZeroDivisionError", 0, "", NoStr)
                     EXCEPT !.limit = limit, !.query = query_embedding]
              ELSE [Call("search", "ok", 0, "", NoStr)
                     EXCEPT !.list = Search(heap, long_term, query_embedding, limit),
                            !.limit = limit, !.query = query_embedding]
    /\ UNCHANGED <<heap, short_term, max_size, long_term, cipher, added, scan, writing, outside>>

\* LongTermMemory.search on a thread of its own, up to the for statement:
\* results = [] and the iterator over self.memories.values() is made.
search_begin(query_embedding, limit) ==
    /\ scan.pc # "iter"
    /\ scan' = [NoScan EXCEPT !.pc = "iter", !.query = query_embedding,
                              !.limit = limit, !.pos = 1,
                              !.used = Len(long_term), !.keys = KeySeq(long_term),
                              !.seen = {long_term}]
    /\ UNCHANGED <<heap, short_term, max_size, long_term, cipher, added, ret, writing, outside>>

\* One turn of that loop: next() on the iterator, then the body, or, at the
\* end of the dict, the sort, the slice and the return.  The iterator raises
\* RuntimeError when the dict was written since its last step.
search_step ==
    /\ scan.pc = "iter"
    /\ \E outcome \in IterOutcomes(scan, long_term) :
         IF outcome = "RuntimeError"
         THEN /\ scan' = [scan EXCEPT !.pc = "done", !.status = "RuntimeError"]
              /\ ret' = [Call("search", "RuntimeError", 0, "", NoStr)
                          EXCEPT !.limit = scan.limit, !.query = scan.query]
         ELSE IF scan.pos > Len(long_term)
         THEN LET top == TopOf(scan.results, scan.limit) IN
              /\ scan' = [scan EXCEPT !.pc = "done", !.status = "ok", !.list = top]
              /\ ret' = [Call("search", "ok", 0, "", NoStr)
                          EXCEPT !.list = top, !.limit = scan.limit,
                                 !.query = scan.query]
         ELSE /\ scan' = [scan EXCEPT !.results = LoopBody(heap, scan, long_term),
                                      !.pos = @ + 1, !.keys = KeySeq(long_term)]
              /\ ret' = ret
    /\ UNCHANGED <<heap, short_term, max_size, long_term, cipher, added, writing, outside>>

\* The caller assigns to the content of a Memory it holds: one it constructed
\* and passed to store, or one that retrieve or search returned.
mutate(r, text) ==
    /\ heap[r].content # Str(text)
    /\ heap' = [heap EXCEPT ![r].content = Str(text)]
    /\ ret' = Call("mutate", "ok", r, heap[r].id, Str(text))
    /\ UNCHANGED <<short_term, max_size, long_term, cipher, added, scan, writing, outside>>

\* MemoryManager.store_interaction on a thread of its own, up to the return
\* of short_term.add.
store_interaction_begin(r) ==
    /\ writing = 0
    /\ Len(added) < MaxAdds
    /\ heap[r].is_sensitive /\ cipher => Len(heap[r].content.iv) < MaxLayers
    /\ short_term' = DequeAppend(short_term, r, max_size)
    /\ added' = Append(added, r)
    /\ writing' = r
    /\ UNCHANGED <<heap, max_size, long_term, cipher, ret, scan, outside>>

\* The rest of that call: long_term.store and the return.
store_interaction_end ==
    /\ writing # 0
    /\ \E nonce \in Nonces :
         LET out == StoreOutcome(heap, long_term, cipher, writing, nonce) IN
         /\ heap' = out.heap
         /\ long_term' = out.memories
         /\ ret' = Call("store_interaction", out.status, writing,
                        heap[writing].id, heap[writing].content)
    /\ writing' = 0
    /\ UNCHANGED <<short_term, max_size, cipher, added, scan, outside>>

\* ShortTermMemory.size
size ==
    /\ ret' = [Call("size", "ok", 0, "", NoStr) EXCEPT !.n = Len(short_term)]
    /\ UNCHANGED <<heap, short_term, max_size, long_term, cipher, added, scan, writing, outside>>

\* ShortTermMemory.get_recent
get_recent(limit) ==
    /\ ret' = [Call("get_recent", "ok", 0, "", NoStr)
                EXCEPT !.list = GetRecent(short_term, limit), !.limit = limit]
    /\ UNCHANGED <<heap, short_term, max_size, long_term, cipher, added, scan, writing, outside>>

\* ShortTermMemory.get_by_session
get_by_session(session_id) ==
    /\ ret' = [Call("get_by_session", "ok", 0, "", NoStr)
                EXCEPT !.list = GetBySession(heap, short_term, session_id),
                       !.session_id = session_id]
    /\ UNCHANGED <<heap, short_term, max_size, long_term, cipher, added, scan, writing, outside>>

\* get_conversation_history also returning the session's records that are in
\* the long-term store and no longer in the deque.
get_conversation_history_with_fallback(session_id) ==
    LET stored == [i \in 1..Len(long_term) |-> long_term[i].v]
        missing == SelectSeq(stored, LAMBDA r : /\ heap[r].session_id = session_id
                                                /\ \A i \in 1..Len(short_term) :
                                                      short_term[i] # r)
    IN
    /\ ret' = [Call("get_conversation_history", "ok", 0, "", NoStr)
                EXCEPT !.list = missing \o GetBySession(heap, short_term, session_id),
                       !.session_id = session_id]
    /\ UNCHANGED <<heap, short_term, max_size, long_term, cipher, added, scan, writing, outside>>

\* MemoryManager.get_conversation_history: short_term.get_by_session
get_conversation_history(session_id) ==
    /\ ret' = [Call("get_conversation_history", "ok", 0, "", NoStr)
                EXCEPT !.list = GetBySession(heap, short_term, session_id),
                       !.session_id = session_id]
    /\ UNCHANGED <<heap, short_term, max_size, long_term, cipher, added, scan, writing, outside>>

\* cleanup_old_memories also dropping the removed records from the deque.
cleanup_old_memories_purging_buffer(retention_days, now) ==
    LET cutoff == now - retention_days
        to_remove == ToRemove(heap, long_term, cutoff)
    IN
    /\ long_term' = DictDel(long_term, to_remove)
    /\ short_term' = SelectSeq(short_term, LAMBDA r : heap[r].id \notin to_remove)
    /\ ret' = [Call("cleanup_old_memories", "ok", 0, "", NoStr)
                EXCEPT !.n = Cardinality(to_remove), !.now = now,
                       !.days = retention_days]
    /\ UNCHANGED <<heap, max_size, cipher, added, scan, writing, outside>>

\* MemoryManager.cleanup_old_memories: long_term.cleanup_old, with
\* datetime.utcnow() reading now.
cleanup_old_memories(retention_days, now) ==
    LET cutoff == now - retention_days
        to_remove == ToRemove(heap, long_term, cutoff)
    IN
    /\ long_term' = DictDel(long_term, to_remove)
    /\ ret' = [Call("cleanup_old_memories", "ok", 0, "", NoStr)
                EXCEPT !.n = Cardinality(to_remove), !.now = now,
                       !.days = retention_days]
    /\ UNCHANGED <<heap, short_term, max_size, cipher, added, scan, writing, outside>>

\* The calls on the subsystem.
Calls ==
    \/ \E r \in Refs : add(r)
    \/ clear
    \/ \E r \in Refs : store(r)
    \/ \E memory_id \in Ids : retrieve(memory_id)
    \/ \E retention_days \in 0..MaxDays, now \in Times : cleanup_old(retention_days, now)
    \/ \E r \in Refs : store_interaction(r)

\* Records that differ in id, content and sensitivity.
ContentInputs ==
    [ids |-> Ids, sessions |-> {"s1"}, texts |-> Texts, embeddings |-> {<<>>},
     times |-> {0}, flags |-> BOOLEAN]
Next == NewMemory(ContentInputs) \/ Calls
Spec == Init /\ [][Next]_vars

\* Records that differ in id, session and sensitivity.
SessionInputs ==
    [ids |-> Ids, sessions |-> Sessions, texts |-> {"hello"}, embeddings |-> {<<>>},
     times |-> {0}, flags |-> BOOLEAN]
NextSessions == NewMemory(SessionInputs) \/ Calls
SpecSessions == Init /\ [][NextSessions]_vars

\* Records that differ in id, timestamp and sensitivity.
RetentionInputs ==
    [ids |-> Ids, sessions |-> {"s1"}, texts |-> {"hello"}, embeddings |-> {<<>>},
     times |-> Times, flags |-> BOOLEAN]
NextRetention == NewMemory(RetentionInputs) \/ Calls
SpecRetention == Init /\ [][NextRetention]_vars

\* A LongTermMemory used on its own, with records that differ in id and
\* embedding: none, of another length than the query, zero, and three
\* directions.
Embeddings == {<<>>, <<1>>, <<0, 0>>, <<1, 0>>, <<0, 1>>, <<1, 1>>}
Queries == {<<1, 0>>, <<1, 1>>, <<0, 0>>}
Limits == -1..MaxLimit
SearchInputs ==
    [ids |-> Ids, sessions |-> {"s1"}, texts |-> {"hello"}, embeddings |-> Embeddings,
     times |-> {0}, flags |-> {FALSE}]
LongTermCalls ==
    \/ \E r \in Refs : store(r)
    \/ \E memory_id \in Ids : retrieve(memory_id)
    \/ \E retention_days \in 0..MaxDays, now \in Times : cleanup_old(retention_days, now)
    \/ \E query_embedding \in Queries, limit \in Limits : search(query_embedding, limit)
NextSearch == NewMemory(SearchInputs) \/ LongTermCalls
SpecSearch == Init /\ [][NextSearch]_vars

\* A ShortTermMemory used on its own, with records that differ in id,
\* session and sensitivity.
BufferCalls ==
    \/ \E r \in Refs : add(r)
    \/ clear
    \/ \E limit \in Limits : get_recent(limit)
    \/ \E session_id \in Sessions : get_by_session(session_id)
    \/ size
NextBuffer == NewMemory(SessionInputs) \/ BufferCalls
SpecBuffer == Init /\ [][NextBuffer]_vars

\* A MemoryManager and its two tiers' reads, with records that differ in id,
\* session and timestamp.  The deque's capacity is the manager's 100 or a
\* small one, at which the deque overflows within MaxAdds appends.
ManagerInputs ==
    [ids |-> Ids, sessions |-> Sessions, texts |-> {"hello"}, embeddings |-> {<<>>},
     times |-> Times, flags |-> BOOLEAN]
ManagerCalls ==
    \/ \E r \in Refs : store_interaction(r)
    \/ \E session_id \in Sessions : get_conversation_history(session_id)
    \/ \E retention_days \in 0..MaxDays, now \in Times :
          cleanup_old_memories(retention_days, now)
    \/ \E memory_id \in Ids : retrieve(memory_id)
NextManager == NewMemory(ManagerInputs) \/ ManagerCalls
SpecManager == Init /\ [][NextManager]_vars

\* A LongTermMemory shared by threads: one runs search, turn by turn of its
\* loop, while the others store, retrieve and clean up; records differ in id
\* and timestamp.
ThreadInputs ==
    [ids |-> Ids, sessions |-> {"s1"}, texts |-> {"hello"},
     embeddings |-> {<<1, 0>>}, times |-> Times, flags |-> {FALSE}]
ThreadCalls ==
    \/ \E r \in Refs : store(r)
    \/ \E memory_id \in Ids : retrieve(memory_id)
    \/ \E retention_days \in 0..MaxDays, now \in Times : cleanup_old(retention_days, now)
    \/ \E limit \in 1..MaxLimit : search_begin(<<1, 0>>, limit)
    \/ search_step
NextThreads == NewMemory(ThreadInputs) \/ ThreadCalls
SpecThreads == Init /\ [][NextThreads]_vars

\* A LongTermMemory and a caller that keeps the objects it passed in and got
\* back, and assigns to them; records differ in id, content and sensitivity.
CallerInputs ==
    [ids |-> Ids, sessions |-> {"s1"}, texts |-> {"hello"}, embeddings |-> {<<1, 0>>},
     times |-> {0}, flags |-> BOOLEAN]
CallerCalls ==
    \/ \E r \in Refs : store(r)
    \/ \E memory_id \in Ids : retrieve(memory_id)
    \/ \E limit \in 1..MaxLimit : search(<<1, 0>>, limit)
    \/ \E r \in Refs, text \in {"hello", "secret"} : mutate(r, text)
NextCallers == NewMemory(CallerInputs) \/ CallerCalls
SpecCallers == Init /\ [][NextCallers]_vars

\* A MemoryManager shared by threads: one runs store_interaction, write by
\* write, while the others read; records differ in id and session, and no
\* store raises.
WriterInputs ==
    [ids |-> Ids, sessions |-> Sessions, texts |-> {"hello"}, embeddings |-> {<<1, 0>>},
     times |-> {0}, flags |-> {FALSE}]
WriterCalls ==
    \/ \E r \in Refs : store_interaction_begin(r)
    \/ store_interaction_end
    \/ \E session_id \in Sessions : get_conversation_history(session_id)
    \/ \E memory_id \in Ids : retrieve(memory_id)
NextWriters == NewMemory(WriterInputs) \/ WriterCalls
SpecWriters == Init /\ [][NextWriters]_vars

\* Every call of the two tiers and of the manager, on records that differ in
\* id, timestamp and sensitivity.
AllInputs ==
    [ids |-> Ids, sessions |-> {"s1"}, texts |-> {"hello"}, embeddings |-> {<<1, 0>>},
     times |-> Times, flags |-> BOOLEAN]
AllCalls ==
    \/ Calls
    \/ \E limit \in 1..MaxLimit : search(<<1, 0>>, limit)
NextAll == NewMemory(AllInputs) \/ AllCalls
SpecAll == Init /\ [][NextAll]_vars

\* ------------------------------------------------------------- TokenTracker
Models == {"gpt-4"}
\* Costs are counted in a unit that floats add exactly.
Costs == {1, 2}

\* TokenUsage(...), with session_id and user_id at their defaults.
TokenUsage(timestamp, model, prompt_tokens, completion_tokens, total_tokens, cost) ==
    [timestamp |-> timestamp, model |-> model, prompt_tokens |-> prompt_tokens,
     completion_tokens |-> completion_tokens, total_tokens |-> total_tokens,
     cost |-> cost, session_id |-> "", user_id |-> ""]

\* record_usage assigning the call's count to the running total.
record_usage_last_only(model, prompt_tokens, completion_tokens, cost, now) ==
    LET total_tokens == prompt_tokens + completion_tokens IN
    /\ Len(recorded) < MaxUsages
    /\ tracker' = [usage_records |->
                       Append(tracker.usage_records,
                              TokenUsage(now, model, prompt_tokens,
                                         completion_tokens, total_tokens, cost)),
                   total_tokens |-> total_tokens,
                   total_cost |-> tracker.total_cost + cost]
    /\ recorded' = Append(recorded, [prompt_tokens |-> prompt_tokens,
                                      completion_tokens |-> completion_tokens])
    /\ UNCHANGED <<memory, handler, reports>>

\* TokenTracker.record_usage, with datetime.utcnow() reading now.
record_usage(model, prompt_tokens, completion_tokens, cost, now) ==
    LET total_tokens == prompt_tokens + completion_tokens IN
    /\ Len(recorded) < MaxUsages
    /\ tracker' = [usage_records |->
                       Append(tracker.usage_records,
                              TokenUsage(now, model, prompt_tokens,
                                         completion_tokens, total_tokens, cost)),
                   total_tokens |-> tracker.total_tokens + total_tokens,
                   total_cost |-> tracker.total_cost + cost]
    /\ recorded' = Append(recorded, [prompt_tokens |-> prompt_tokens,
                                      completion_tokens |-> completion_tokens])
    /\ UNCHANGED <<memory, handler, reports>>

NextTracker ==
    \E model \in Models, prompt_tokens \in 0..MaxTokens,
       completion_tokens \in 0..MaxTokens, cost \in Costs, now \in Times :
        record_usage(model, prompt_tokens, completion_tokens, cost, now)
SpecTracker == Init /\ [][NextTracker]_vars

\* ------------------------------------------------------------- ErrorHandler
Errors == {"Test error", "timeout"}

\* handle_error opening the circuit only above the threshold.
handle_error_above_threshold(error) ==
    LET count == handler.failure_count + 1
        state == IF count > handler.failure_threshold THEN "open" ELSE handler.state
    IN
    /\ Len(reports) < MaxErrors
    /\ handler' = [handler EXCEPT !.failure_count = count, !.state = state]
    /\ reports' = Append(reports, [error |-> error, circuit_state |-> state,
                                    failure_count |-> count])
    /\ UNCHANGED <<memory, tracker, recorded>>

\* ErrorHandler.handle_error
handle_error(error) ==
    LET count == handler.failure_count + 1
        state == IF count >= handler.failure_threshold THEN "open" ELSE handler.state
    IN
    /\ Len(reports) < MaxErrors
    /\ handler' = [handler EXCEPT !.failure_count = count, !.state = state]
    /\ reports' = Append(reports, [error |-> error, circuit_state |-> state,
                                    failure_count |-> count])
    /\ UNCHANGED <<memory, tracker, recorded>>

NextHandler == \E error \in Errors : handle_error(error)
SpecHandler == Init /\ [][NextHandler]_vars

\* ------------------------------------------------------------ what is stored
\* The record the dict holds under key (key is in the dict).
StoredRecord(h, d, key) == h[DictGet(d, key)]

\* The dict as a caller could read it: each key's record, field by field.
StoredRecords(h, d) == [key \in DictKeys(d) |-> StoredRecord(h, d, key)]

\* What retrieve(memory_id) would hand the caller in this state.
RetrieveView(h, d, key_set, memory_id) ==
    LET out == RetrieveOutcome(h, d, key_set, memory_id) IN
    [status |-> out.status, found |-> out.ref # 0, content |-> ContentOf(out)]

\* The last call was retrieve, as the nth call of a run store(r), retrieve(r.id),
\* retrieve(r.id), ... on a record of the given sensitivity.
RetrievedAfterStore(nth, is_sensitive) ==
    /\ ret.op = "retrieve"
    /\ ret.nth = nth
    /\ ret.id \in DictKeys(long_term)
    /\ StoredRecord(heap, long_term, ret.id).is_sensitive = is_sensitive

\* ------------------------------------------------------------------- claims

\* C1: with a key configured, after store(r) of a sensitive record, the second
\* of two retrieve(r.id) calls in a row succeeds, like the first, and returns
\* the plaintext that was stored.
C1_RetrieveTwiceSamePlaintext ==
    (cipher /\ RetrievedAfterStore(2, TRUE)) =>
        (ret.status = "ok" /\ ret.val = ret.orig)

\* C2: a retrieve of a sensitive record stored under a configured key leaves the
\* dict and every stored record as they were, and the stored content is still a
\* token afterwards.
C2_RetrieveLeavesStoreUnchanged ==
    [][\A memory_id \in DictKeys(long_term) :
          (/\ retrieve(memory_id)
           /\ cipher
           /\ StoredRecord(heap, long_term, memory_id).is_sensitive)
          => (/\ long_term' = long_term
              /\ StoredRecords(heap', long_term') = StoredRecords(heap, long_term)
              /\ IsToken(StoredRecord(heap', long_term', memory_id).content))]_vars

\* C3: after store_interaction(r) the deque's copy of r still has the content
\* the caller supplied, whatever the long-term store did to its own copy.
C3_BufferKeepsCallerContent ==
    (ret.op = "store_interaction" /\ ret.status = "ok" /\ short_term # <<>>) =>
        heap[short_term[Len(short_term)]].content = ret.val

\* C4: with a key configured, a successful store of a sensitive record leaves
\* in the dict a content different from the plaintext it was given, and a
\* retrieve right after the store succeeds and returns that plaintext.
C4_SensitiveRoundTrip ==
    /\ (cipher /\ ret.op = "store" /\ ret.status = "ok" /\ heap[ret.ref].is_sensitive) =>
           StoredRecord(heap, long_term, ret.id).content # ret.val
    /\ (cipher /\ RetrievedAfterStore(1, TRUE)) =>
           (ret.status = "ok" /\ ret.ref # 0 /\ ret.val = ret.orig)

C4_Witness ==
    /\ cipher
    /\ RetrievedAfterStore(1, TRUE)
    /\ ret.status = "ok"
    /\ ret.val = Str("secret")

\* C5: with or without a key, a retrieve right after the store of a
\* non-sensitive record returns a record with the id and the content stored.
C5_PlainRoundTrip ==
    RetrievedAfterStore(1, FALSE) =>
        (/\ ret.status = "ok"
         /\ ret.ref # 0
         /\ heap[ret.ref].id = ret.id
         /\ ret.val = ret.orig)

C5_Witness ==
    /\ RetrievedAfterStore(1, FALSE)
    /\ cipher
    /\ ret.val = Str("hello")
    /\ Len(long_term) = 2

\* The last n items of a sequence (all of it when it is shorter).
LastN(q, n) == IF n >= Len(q) THEN q ELSE SubSeq(q, Len(q) - n + 1, Len(q))

Items(q) == {q[i] : i \in 1..Len(q)}

\* C6: once more records have been appended than the buffer's capacity, the
\* buffer holds exactly the last max_size of them, in the order appended, and
\* get_recent(max_size) returns them.
C6_BufferKeepsLastAdded ==
    Len(added) > max_size =>
        (/\ short_term = LastN(added, max_size)
         /\ GetRecent(short_term, max_size) = LastN(added, max_size))

C6_Witness ==
    /\ max_size = 2
    /\ Len(added) = 3
    /\ short_term = <<added[2], added[3]>>
    /\ added[1] # added[2]
    /\ added[2] # added[3]

\* C7: when the long-term store raises inside store_interaction(r), the
\* caller gets that exception, r is the newest item of the deque, and the
\* dict and the stored records are as they were before the call.
C7_FailedStoreKeepsBufferWrite ==
    [][\A r \in Refs, nonce \in Nonces :
          (/\ store_interaction(r)
           /\ StoreOutcome(heap, long_term, cipher, r, nonce).status # "ok")
          => (/\ ret'.status = StoreOutcome(heap, long_term, cipher, r, nonce).status
              /\ short_term' # <<>>
              /\ short_term'[Len(short_term')] = r
              /\ long_term' = long_term
              /\ StoredRecords(heap', long_term') = StoredRecords(heap, long_term))]_vars

C7_Witness ==
    /\ ret.op = "store_interaction"
    /\ ret.status = "UnicodeEncodeError"
    /\ short_term # <<>>
    /\ short_term[Len(short_term)] = ret.ref
    /\ ret.ref \notin {long_term[i].v : i \in 1..Len(long_term)}
    /\ long_term # <<>>

\* C8: after store_interaction(r) returns normally the deque is not empty,
\* get_conversation_history(r.session_id) includes r, and retrieve(r.id) would
\* return a record, not None, whose id is r.id.
C8_StoredInBothTiers ==
    (ret.op = "store_interaction" /\ ret.status = "ok") =>
        (/\ short_term # <<>>
         /\ ret.ref \in Items(GetBySession(heap, short_term, heap[ret.ref].session_id))
         /\ LET out == RetrieveOutcome(heap, long_term, cipher, ret.id) IN
            /\ out.status = "ok"
            /\ out.ref # 0
            /\ out.heap[out.ref].id = ret.id)

C8_Witness ==
    /\ ret.op = "store_interaction"
    /\ ret.status = "ok"
    /\ cipher
    /\ heap[ret.ref].is_sensitive
    /\ Len(short_term) = 2
    /\ heap[short_term[1]].session_id # heap[short_term[2]].session_id

\* C9: the dict never holds two entries under one id, and a successful store
\* of the record the dict already holds under its id leaves retrieve(id)
\* returning what it returned before that second store.
C9_StoreIsIdempotentUpsert ==
    [][\A r \in Refs :
          (store(r) /\ ret'.status = "ok")
          => (/\ \A i, j \in 1..Len(long_term') :
                    long_term'[i].k = long_term'[j].k => i = j
              /\ DictGet(long_term, heap[r].id) = r
                 => RetrieveView(heap', long_term', cipher, heap[r].id)
                      = RetrieveView(heap, long_term, cipher, heap[r].id))]_vars

\* C10: cleanup_old(d) called at time now deletes exactly the records with
\* timestamp < now - d and returns their number; a record with timestamp
\* = now - d stays.  Afterwards retrieve finds nothing under a deleted id, and
\* each retained id keeps its record, field by field, and retrieve gives for it
\* what it gave before the cleanup.
C10_CleanupRemovesExactlyTheOld ==
    [][\A retention_days \in 0..MaxDays, now \in Times :
          cleanup_old(retention_days, now)
          => LET old == {key \in DictKeys(long_term) :
                            StoredRecord(heap, long_term, key).timestamp
                                < now - retention_days}
             IN
             /\ DictKeys(long_term') = DictKeys(long_term) \ old
             /\ ret'.n = Cardinality(old)
             /\ \A key \in old :
                   RetrieveView(heap', long_term', cipher, key)
                     = [status |-> "ok", found |-> FALSE, content |-> NoStr]
             /\ \A key \in DictKeys(long_term) \ old :
                   /\ StoredRecord(heap', long_term', key) = StoredRecord(heap, long_term, key)
                   /\ RetrieveView(heap', long_term', cipher, key)
                        = RetrieveView(heap, long_term, cipher, key)]_vars

C10_Witness ==
    /\ ret.op = "cleanup_old"
    /\ ret.n = 1
    /\ \E key \in DictKeys(long_term) :
          StoredRecord(heap, long_term, key).timestamp = ret.now - ret.days

\* The similarity to the query of the record behind a reference.
SimilarityOf(r, query) == CosineSimilarity(query, heap[r].embedding)

\* C11: for a limit >= 0, search returns at most limit records, and the
\* similarity to the query does not increase along the list returned.
C11_SearchBoundedAndSorted ==
    (ret.op = "search" /\ ret.limit >= 0) =>
        (/\ Len(ret.list) <= ret.limit
         /\ \A i, j \in 1..Len(ret.list) :
               i < j => SimGeq(SimilarityOf(ret.list[i], ret.query),
                               SimilarityOf(ret.list[j], ret.query)))

\* The spec's scenario with limit 2: embeddings [1,0] and [0,1] stored in the
\* other order, query [1,0]; the record with [1,0] comes first.
C11_Witness ==
    /\ ret.op = "search"
    /\ ret.query = <<1, 0>>
    /\ ret.limit = 2
    /\ Len(ret.list) = 2
    /\ heap[ret.list[1]].embedding = <<1, 0>>
    /\ heap[ret.list[2]].embedding = <<0, 1>>
    /\ long_term[1].v = ret.list[2]
\* ---------------------------------------------------------------------- C14
\* C14: for every limit >= 0, get_recent(limit) returns exactly the last
\* min(limit, size) records of the buffer, oldest of the window first (the
\* buffer is the one the call ran on: get_recent assigns nothing to it).
C14_GetRecentLastMin ==
    (ret.op = "get_recent" /\ ret.limit >= 0) =>
        ret.list = LastN(short_term, IF ret.limit <= Len(short_term)
                                     THEN ret.limit ELSE Len(short_term))

\* ---------------------------------------------------------------------- C17
\* C17: get_by_session(s) returns exactly the records now in the buffer whose
\* session_id is s, in the buffer's order; a record of s that was added and
\* has since been pushed out is not in the list.
C17_SessionRecordsInOrder ==
    ret.op = "get_by_session" =>
        /\ ret.list = SelectSeq(short_term,
                                LAMBDA r : heap[r].session_id = ret.session_id)
        /\ \A r \in Items(added) \ Items(short_term) : r \notin Items(ret.list)

\* The session's only record was pushed out by the other session's traffic,
\* and the call returns nothing for it.
C17_Witness ==
    /\ ret.op = "get_by_session" /\ ret.session_id = "s1"
    /\ Len(added) >= 2 /\ heap[added[1]].session_id = "s1"
    /\ added[1] \notin Items(short_term)
    /\ short_term # <<>>
    /\ \A i \in 1..Len(short_term) : heap[short_term[i]].session_id = "s2"
    /\ ret.list = <<>>

\* ---------------------------------------------------------------------- C15
\* C15: a store of a sensitive record, with a key set, whose encryption raises
\* ends in that exception, and leaves the dict and every record, the caller's
\* included, as they were: nothing is written, in plaintext or otherwise.
C15_FailedEncryptionWritesNothing ==
    [][\A r \in Refs :
          (store(r) /\ cipher /\ heap[r].is_sensitive /\ ~Encodable(heap[r].content))
              => (/\ ret'.status # "ok"
                  /\ long_term' = long_term
                  /\ heap' = heap
                  /\ heap[r].id \notin DictKeys(long_term)
                        => heap[r].id \notin DictKeys(long_term'))]_vars

\* A store has raised on the second record with the first one in the dict.
C15_Witness ==
    /\ ret.op = "store" /\ ret.status = "UnicodeEncodeError"
    /\ cipher /\ heap[ret.ref].is_sensitive
    /\ heap[ret.ref].content = Str(Unencodable)
    /\ long_term # <<>>
    /\ ret.id \notin DictKeys(long_term)

\* ---------------------------------------------------------------------- C16
\* C16: a retrieve whose decryption raises returns nothing and leaves the dict
\* and the stored record as they were; and a retrieve that follows a successful
\* store of that id (with only retrieves of that id in between) does not raise.
C16_DecryptFailsOnlyOnBadInput ==
    [][\A memory_id \in Ids :
          retrieve(memory_id) =>
              /\ ret'.status # "ok" =>
                    (ret'.ref = 0 /\ ret'.val = NoStr
                     /\ heap' = heap /\ long_term' = long_term)
              /\ ret'.nth >= 1 => ret'.status = "ok"]_vars

\* ---------------------------------------------------------------------- C18
\* C18: get_conversation_history(s) returns records of the deque only: a record
\* of session s that is in the long-term store and no longer in the deque is
\* not in the list; and the call leaves the long-term store and its records as
\* they were.
C18_HistoryFromBufferOnly ==
    [][\A s \in Sessions :
          get_conversation_history(s) =>
              /\ Items(ret'.list) \subseteq Items(short_term)
              /\ \A i \in 1..Len(long_term) :
                    (/\ heap[long_term[i].v].session_id = s
                     /\ long_term[i].v \notin Items(short_term))
                        => long_term[i].v \notin Items(ret'.list)
              /\ long_term' = long_term
              /\ heap' = heap]_vars

\* The session has two stored records; the older one has left the deque and
\* only the newer one is returned.
C18_Witness ==
    /\ ret.op = "get_conversation_history" /\ ret.session_id = "s1"
    /\ Len(ret.list) = 1
    /\ \E i \in 1..Len(long_term) :
          /\ heap[long_term[i].v].session_id = "s1"
          /\ long_term[i].v \in Items(added)
          /\ long_term[i].v \notin Items(short_term)
          /\ long_term[i].v \notin Items(ret.list)

\* ---------------------------------------------------------------------- C19
\* C19: cleanup_old_memories leaves the deque as it was, in size and order, and
\* leaves every record in it as it was, the records it deletes from the
\* long-term store included.
C19_CleanupLeavesBuffer ==
    [][\A retention_days \in 0..MaxDays, now \in Times :
          cleanup_old_memories(retention_days, now) =>
              /\ short_term' = short_term
              /\ \A r \in Items(short_term) : heap'[r] = heap[r]]_vars

\* A cleanup has deleted a record that is still in the deque.
C19_Witness ==
    /\ ret.op = "cleanup_old_memories" /\ ret.n >= 1
    /\ \E r \in Items(short_term) :
          /\ heap[r].id \notin DictKeys(long_term)
          /\ heap[r].timestamp < ret.now - ret.days

\* ---------------------------------------------------------------------- C20
\* The record store_interaction(r) pushes out of the deque, 0 if none: the
\* deque is full, and its oldest record is not in it afterwards.
Evicted(r) ==
    IF /\ Len(short_term) >= max_size
       /\ Head(short_term) \notin Items(DequeAppend(short_term, r, max_size))
    THEN Head(short_term) ELSE 0

\* What the long-term store holds for the id of record e, field by field, and
\* what retrieve returns for that id.
EntryOf(h, d, e) ==
    [stored |-> IF h[e].id \in DictKeys(d)
                THEN <<StoredRecord(h, d, h[e].id)>> ELSE <<>>,
     record |-> h[e],
     view |-> RetrieveView(h, d, cipher, h[e].id)]

\* C20: when store_interaction(r) pushes a stored record out of the deque, the
\* long-term store's entry for that record, the record itself and what
\* retrieve returns for its id are as before the call.  Ids are unique keys:
\* the record pushed out has another id than r (a store under the same id is
\* an overwrite of the entry, whether or not the deque overflows).
C20_EvictionIsTierLocal ==
    [][\A r \in Refs :
          (/\ store_interaction(r)
           /\ Evicted(r) # 0
           /\ DictGet(long_term, heap[Evicted(r)].id) = Evicted(r)
           /\ heap[Evicted(r)].id # heap[r].id)
              => EntryOf(heap', long_term', Evicted(r))
                   = EntryOf(heap, long_term, Evicted(r))]_vars

\* A stored record has been pushed out of the deque by a record of another
\* id, and is still the long-term store's entry for its id.
C20_Witness ==
    /\ ret.op = "store_interaction" /\ ret.status = "ok"
    /\ Len(added) > max_size /\ Len(short_term) = max_size
    /\ LET e == added[Len(added) - max_size] IN
          /\ e \notin Items(short_term)
          /\ heap[e].id # ret.id
          /\ DictGet(long_term, heap[e].id) = e

\* ---------------------------------------------------------------------- C12
\* C12: a search run while other threads call store, retrieve and cleanup_old
\* on the same LongTermMemory returns without raising, and returns what a
\* search returns on one of the dicts that existed during the call.
C12_ConcurrentSearchIsSafe ==
    scan.pc = "done" =>
        /\ scan.status = "ok"
        /\ \E d \in scan.seen : scan.list = Search(heap, d, scan.query, scan.limit)

\* ---------------------------------------------------------------------- C13
\* C13: a search during which a cleanup_old ran returns normally, and every
\* record it returns is one the store held before or after the cleanup.
C13_SearchSeesWholeCleanups ==
    (scan.pc = "done" /\ "cleanup_old" \in scan.during) =>
        /\ scan.status = "ok"
        /\ \A r \in Items(scan.list) :
              \E d \in scan.seen : \E i \in 1..Len(d) : d[i].v = r

\* ---------------------------------------------------------------------- C21
\* C21: with no key configured, a store of a sensitive record succeeds and
\* leaves in the dict the content it was given; a retrieve after that store,
\* the first or a later one, succeeds and returns that same content.
C21_NoKeyKeepsPlaintext ==
    /\ (~cipher /\ ret.op = "store" /\ heap[ret.ref].is_sensitive) =>
           (/\ ret.status = "ok"
            /\ StoredRecord(heap, long_term, ret.id).content = ret.val)
    /\ \A nth \in 1..2 :
          (~cipher /\ RetrievedAfterStore(nth, TRUE)) =>
              (/\ ret.status = "ok" /\ ret.ref # 0
               /\ ret.val = ret.orig
               /\ StoredRecord(heap, long_term, ret.id).content = ret.orig)

\* A second retrieve in a row of a sensitive record stored without a key.
C21_Witness ==
    /\ ~cipher
    /\ RetrievedAfterStore(2, TRUE)
    /\ ret.status = "ok"
    /\ ret.val = Str("secret")

\* ---------------------------------------------------------------------- C22
\* prompt_tokens + completion_tokens summed over a list of calls.
RECURSIVE SumTokens(_)
SumTokens(calls) ==
    IF calls = <<>> THEN 0
    ELSE Head(calls).prompt_tokens + Head(calls).completion_tokens
         + SumTokens(Tail(calls))

\* C22: after any sequence of record_usage calls, total_tokens is the sum of
\* prompt_tokens + completion_tokens over the calls, usage_records has one
\* record per call, and each record's total_tokens is the sum of its
\* prompt_tokens and completion_tokens.
C22_TokenTotalsAccumulate ==
    /\ tracker.total_tokens = SumTokens(recorded)
    /\ Len(tracker.usage_records) = Len(recorded)
    /\ \A i \in 1..Len(tracker.usage_records) :
          LET u == tracker.usage_records[i] IN
          /\ u.total_tokens = u.prompt_tokens + u.completion_tokens
          /\ u.prompt_tokens = recorded[i].prompt_tokens
          /\ u.completion_tokens = recorded[i].completion_tokens

\* Two calls with different counts have been recorded.
C22_Witness ==
    /\ Len(recorded) = 2
    /\ recorded[1] = [prompt_tokens |-> 1, completion_tokens |-> 2]
    /\ recorded[2] = [prompt_tokens |-> 2, completion_tokens |-> 0]
    /\ tracker.total_tokens = 5

\* ---------------------------------------------------------------------- C30
\* C30: failure_count is the number of handle_error calls so far; the state is
\* "open" exactly when failure_count >= failure_threshold, which is 5, and
\* "closed" otherwise; every circuit_state reported is "closed" or "open", and
\* is the state; and a step from an open circuit leaves it open.
C30_CircuitBreaker ==
    /\ [](/\ handler.failure_count = Len(reports)
          /\ handler.failure_threshold = 5
          /\ handler.state = (IF handler.failure_count >= handler.failure_threshold
                               THEN "open" ELSE "closed")
          /\ \A i \in 1..Len(reports) :
                /\ reports[i].circuit_state \in {"closed", "open"}
                /\ reports[i].failure_count = i
                /\ reports[i].circuit_state = (IF i >= 5 THEN "open" ELSE "closed"))
    /\ [][handler.state = "open" => handler'.state = "open"]_vars

\* The circuit opened at the fifth call and a later call reported it open.
C30_Witness ==
    /\ Len(reports) = 6
    /\ reports[4].circuit_state = "closed"
    /\ reports[5].circuit_state = "open"
    /\ reports[6].circuit_state = "open"
    /\ handler.state = "open"

\* ---------------------------------------------------------------------- C23
\* C23: store leaves the caller's object as it was; and an assignment by the
\* caller to an object it passed to store, or got from retrieve or search,
\* changes neither a record of the dict nor what retrieve returns for any id.
C23_CopyOutNotReferenceOut ==
    [][/\ \A r \in Refs : store(r) => heap'[r] = heap[r]
       /\ \A r \in Refs, text \in {"hello", "secret"} :
             mutate(r, text) =>
                 /\ StoredRecords(heap', long_term') = StoredRecords(heap, long_term)
                 /\ \A id \in Ids :
                       RetrieveView(heap', long_term', cipher, id)
                         = RetrieveView(heap, long_term, cipher, id)]_vars

\* ---------------------------------------------------------------------- C24
\* The stored records that can be compared with the query: their embedding is
\* not empty and has the query's length.
Comparable(query) ==
    {long_term[i].v : i \in {j \in 1..Len(long_term) :
        /\ heap[long_term[j].v].embedding # <<>>
        /\ Len(heap[long_term[j].v].embedding) = Len(query)}}

\* C24: for a limit >= 0, every stored record is a candidate of search, so
\* the list has min(limit, number of stored records) records; and a record
\* whose embedding is empty or of another length than the query is in the
\* list only if fewer than limit comparable records are stored.
C24_IncomparableRankLast ==
    (ret.op = "search" /\ ret.limit >= 0) =>
        /\ Len(ret.list) = (IF ret.limit <= Len(long_term)
                             THEN ret.limit ELSE Len(long_term))
        /\ \A r \in Items(ret.list) \ Comparable(ret.query) :
              Cardinality(Comparable(ret.query)) < ret.limit

\* ---------------------------------------------------------------------- C25
\* The place of a stored record in the dict's insertion order.
PlaceOf(r) == CHOOSE i \in 1..Len(long_term) : long_term[i].v = r

\* C25: of two returned records with equal similarity to the query, the one
\* whose key was inserted first into the dict comes first; the list is thereby
\* fixed by the query, the limit and the store.
C25_TiesByInsertionOrder ==
    ret.op = "search" =>
        /\ \A i, j \in 1..Len(ret.list) :
              (/\ i < j
               /\ SimEq(SimilarityOf(ret.list[i], ret.query),
                        SimilarityOf(ret.list[j], ret.query)))
                  => PlaceOf(ret.list[i]) < PlaceOf(ret.list[j])
        /\ ret.list = Search(heap, long_term, ret.query, ret.limit)

\* Two records as similar to the query as each other are returned, the one
\* of the second id stored first.
C25_Witness ==
    /\ ret.op = "search" /\ ret.query = <<1, 1>> /\ Len(ret.list) = 2
    /\ heap[ret.list[1]].embedding = <<0, 1>> /\ heap[ret.list[1]].id = "m2"
    /\ heap[ret.list[2]].embedding = <<1, 0>> /\ heap[ret.list[2]].id = "m1"
    /\ long_term[1].v = ret.list[1]

\* ---------------------------------------------------------------------- C26
\* C26: store_interaction writes the deque before the dict, and no reader
\* running meanwhile sees a record in the deque that is not yet in the dict:
\* every record a get_conversation_history returned has its id in the dict.
C26_NoPartialStateObserved ==
    /\ writing # 0 => writing \in Items(short_term)
    /\ ret.op = "get_conversation_history" =>
           \A r \in Items(ret.list) : heap[r].id \in DictKeys(long_term)

\* ---------------------------------------------------------------------- C27
\* C27: the deque holds min(max_size, number of adds since the last clear)
\* records, which is what size() returns, so never more than max_size; add
\* does not raise; clear empties the deque and leaves max_size as it was.
C27_BufferSize ==
    /\ [](LET n == IF Len(added) <= max_size THEN Len(added) ELSE max_size IN
          /\ Len(short_term) = n
          /\ Len(short_term) <= max_size
          /\ ret.op = "size" => ret.n = n
          /\ ret.op = "add" => ret.status = "ok")
    /\ [][clear => (short_term' = <<>> /\ max_size' = max_size)]_vars
    /\ [][max_size' = max_size]_vars

\* size() on a deque of capacity 2 after three adds.
C27_Witness ==
    /\ ret.op = "size" /\ ret.n = 2
    /\ max_size = 2 /\ Len(added) = 3

\* ---------------------------------------------------------------------- C28
\* The vector has zero magnitude.
ZeroMagnitude(a) == DotProduct(a, a) = 0

\* C28: _cosine_similarity divides by no zero, and is 0.0 when the vectors
\* differ in length or one of them has zero magnitude; so a search over stored
\* records with such embeddings, or with such a query, does not raise.
C28_CosineIsTotal ==
    ret.op = "search" =>
        /\ ret.status = "ok"
        /\ \A i \in 1..Len(long_term) :
              LET b == heap[long_term[i].v].embedding
                  sim == CosineSimilarity(ret.query, b)
              IN /\ sim.den > 0
                 /\ (Len(b) # Len(ret.query) \/ ZeroMagnitude(b)
                       \/ ZeroMagnitude(ret.query)) => sim = ZeroSimilarity

\* A search with a query of two components over a zero embedding and an
\* embedding of one component has returned both records.
C28_Witness ==
    /\ ret.op = "search" /\ ret.status = "ok" /\ ret.query = <<1, 0>>
    /\ Len(ret.list) = 2
    /\ {heap[ret.list[1]].embedding, heap[ret.list[2]].embedding} = {<<0, 0>>, <<1>>}

\* ---------------------------------------------------------------------- C29
\* The fields of a record other than its content.
Identity(m) ==
    [id |-> m.id, session_id |-> m.session_id, timestamp |-> m.timestamp,
     embedding |-> m.embedding, is_sensitive |-> m.is_sensitive]

\* The records held in the deque or in the dict.
Held == Items(short_term) \cup {long_term[i].v : i \in 1..Len(long_term)}

\* C29: no call changes the id, session_id, timestamp, embedding or
\* is_sensitive of a record held in either tier, and every key of the dict
\* maps to a record whose id is that key.
C29_IdentityFieldsFrozen ==
    /\ [](\A i \in 1..Len(long_term) : heap[long_term[i].v].id = long_term[i].k)
    /\ [][\A r \in Held : Identity(heap'[r]) = Identity(heap[r])]_vars

\* A sensitive record held in both tiers has been encrypted by store and
\* decrypted by retrieve, next to a second stored record.
C29_Witness ==
    /\ ret.op = "retrieve" /\ ret.status = "ok" /\ ret.nth = 1 /\ cipher
    /\ ret.ref \in Items(short_term)
    /\ heap[ret.ref].is_sensitive
    /\ Len(long_term) = 2

====
